---- MODULE Spec2Model ----
(***************************************************************************)
(* Model of the payments engine: process_csv (src/src/main.rs) applied to  *)
(* a stream of decoded Transaction records.                                *)
(*                                                                         *)
(* Amounts are f32 in the source.  An amount is modelled by the integer n  *)
(* that counts a fixed power-of-two unit, so that f32 addition and         *)
(* subtraction are the exact integer result rounded to MantissaDigits      *)
(* significant bits, ties to even (F32Round).  The unit is 2^-UnitBits, so *)
(* that the output's four decimal places are coarser than the unit and     *)
(* `{:.4}` rounds (Format4).  NaN and the infinities are outside the       *)
(* modelled input domain.                                                  *)
(***************************************************************************)
EXTENDS Integers, Sequences, FiniteSets, TLC

\* ---------------------------------------------------------------- bounds
\* The longest stream of records read from the reader.
MaxRecords == 4

\* ------------------------------------------------------------ f32 numbers
MantissaDigits == 24

Abs(x) == IF x < 0 THEN -x ELSE x

\* Spacing of the f32 values around magnitude m (in units).
RECURSIVE Ulp(_)
Ulp(m) == IF m < 2^MantissaDigits THEN 1 ELSE 2 * Ulp(m \div 2)

\* Round-to-nearest, ties-to-even, of the exact integer result x.
F32Round(x) ==
    LET m == Abs(x)
        u == Ulp(m)
        q == m \div u
        r == m % u
        up == (2 * r > u) \/ (2 * r = u /\ q % 2 = 1)
        n == IF up THEN (q + 1) * u ELSE q * u
    IN  IF x < 0 THEN -n ELSE n

F32Add(x, y) == F32Round(x + y)
F32Sub(x, y) == F32Round(x - y)

\* An amount n stands for the f32 value n / 2^UnitBits.
UnitBits == 15

\* The precision of `{:.4}`.
DecimalPlaces == 4

\* `{:.4}` of the f32 value n / 2^UnitBits, as the signed count of
\* 10^-DecimalPlaces it prints: the exact value rounded to nearest, ties to
\* even.
Format4(n) ==
    LET one == 2^UnitBits
        m == Abs(n)
        whole == m \div one
        frac == (m % one) * 10^DecimalPlaces
        d == frac \div one
        r == frac % one
        up == (2 * r > one) \/ (2 * r = one /\ d % 2 = 1)
        p == whole * 10^DecimalPlaces + (IF up THEN d + 1 ELSE d)
    IN  IF n < 0 THEN -p ELSE p

\* ------------------------------------------------------------- data types
\* Client and transaction identifiers (u16, u32): only compared and ordered.
Clients == {1, 2}
TxIds == {1, 2}

\* An amount large enough for f32 rounding to show in sums.
BigAmount == 2^MantissaDigits

Amounts == {-1, 1, BigAmount}

\* Option<f32>: None is the empty sequence, Some(a) the one-element sequence.
None == <<>>
Some(a) == <<a>>
OptAmounts == {None} \cup {Some(a) : a \in Amounts}

TransactionType == {"Deposit", "Withdrawal", "Dispute", "Resolve", "Chargeback"}

\* The decoded records.  Dispute, Resolve and Chargeback rows never read their
\* amount, so one present and one absent amount stand for all of them.
Transaction ==
    [tx_type : {"Deposit", "Withdrawal"}, client_id : Clients, tx_id : TxIds,
     amount : OptAmounts]
    \cup
    [tx_type : TransactionType \ {"Deposit", "Withdrawal"}, client_id : Clients,
     tx_id : TxIds, amount : {None, Some(1)}]

AccountBalance(c) == [client |-> c, available |-> 0, held |-> 0, locked |-> FALSE]

TransactionErrorType == {"NoDepositAmount", "NoWithdrawalAmount"}

\* Mutant of get_total: held is left out of the total.
get_total_available(a) == a.available

get_total(a) == F32Add(a.available, a.held)

\* ------------------------------------------------------------------ state
VARIABLES
    account_balances,             \* BTreeMap<u16, AccountBalance>
    deposit_transaction_amounts,  \* HashMap<u32, f32>
    disputed_transactions,        \* Vec<u32>
    transaction,                  \* the record of the current loop iteration
    nread,                        \* records read from the reader so far
    result,                       \* "Running", "Ok" or the error returned
    output,                       \* the lines of the returned string
    pre,                          \* history: the containers before this iteration
    latest_deposit,               \* history: tx_id -> amount of its latest Deposit
    depositor                     \* history: tx_id -> client of its latest Deposit

vars == <<account_balances, deposit_transaction_amounts, disputed_transactions,
          transaction, nread, result, output, pre, latest_deposit,
          depositor>>

Containers ==
    [accounts |-> account_balances,
     deposits |-> deposit_transaction_amounts,
     disputed |-> disputed_transactions]

Init ==
    /\ account_balances = <<>>
    /\ deposit_transaction_amounts = <<>>
    /\ disputed_transactions = <<>>
    /\ transaction = None
    /\ nread = 0
    /\ result = "Running"
    /\ output = <<>>
    /\ pre = [accounts |-> <<>>, deposits |-> <<>>, disputed |-> <<>>]
    /\ latest_deposit = <<>>
    /\ depositor = <<>>

\* account_balances.entry(client_id): the map with the client's account in it.
entry(c) ==
    IF c \in DOMAIN account_balances
    THEN account_balances
    ELSE [k \in DOMAIN account_balances \cup {c} |->
             IF k = c THEN AccountBalance(c) ELSE account_balances[k]]

\* Mutant of insert: HashMap::entry(k).or_insert(v) keeps an earlier entry.
insert_if_absent(m, k, v) ==
    [x \in DOMAIN m \cup {k} |-> IF x \in DOMAIN m THEN m[x] ELSE v]

\* HashMap::insert
insert(m, k, v) == [x \in DOMAIN m \cup {k} |-> IF x = k THEN v ELSE m[x]]

\* Mutant of get: get(..).unwrap_or(0.0) finds amount 0 for an unknown key.
get_or_zero(m, k) == IF k \in DOMAIN m THEN Some(m[k]) ELSE Some(0)

\* HashMap::get
get(m, k) == IF k \in DOMAIN m THEN Some(m[k]) ELSE None

\* Mutant of contains: the check that the tx_id is disputed is left out.
contains_unchecked(v, x) == TRUE

\* Vec::contains
contains(v, x) == \E i \in 1..Len(v) : v[i] = x

\* Vec::push
push(v, x) == Append(v, x)

\* Mutant of locked: the check of the locked flag is left out.
locked_unchecked(account_balance) == FALSE

\* if account_balance.locked { continue; }
locked(account_balance) == account_balance.locked

\* The balance updates of the five match arms.
deposit(account_balance, amount) ==
    [account_balance EXCEPT !.available = F32Add(@, amount)]

\* Mutant of sufficient: a Withdrawal of the whole balance is refused.
sufficient_strict(new_balance) == new_balance > 0

sufficient(new_balance) == new_balance >= 0

\* Mutant of dispute: a Dispute that would overdraw available is skipped.
dispute_if_funded(account_balance, amount) ==
    IF account_balance.available - amount < 0
    THEN account_balance
    ELSE [account_balance EXCEPT !.available = F32Sub(@, amount),
                                 !.held = F32Add(@, amount)]

dispute(account_balance, amount) ==
    [account_balance EXCEPT !.available = F32Sub(@, amount),
                            !.held = F32Add(@, amount)]

\* Mutant of resolve: the signs of a Dispute are used.
resolve_swapped(account_balance, amount) ==
    [account_balance EXCEPT !.available = F32Sub(@, amount),
                            !.held = F32Add(@, amount)]

resolve(account_balance, amount) ==
    [account_balance EXCEPT !.available = F32Add(@, amount),
                            !.held = F32Sub(@, amount)]

\* Mutant of chargeback: the account is not locked.
chargeback_unlocked(account_balance, amount) ==
    [account_balance EXCEPT !.held = F32Sub(@, amount)]

chargeback(account_balance, amount) ==
    [account_balance EXCEPT !.held = F32Sub(@, amount),
                            !.locked = TRUE]

NoDepositAmount == "NoDepositAmount"
\* Mutant of NoWithdrawalAmount: the error of the Deposit arm is returned.
NoWithdrawalAmount_copied == "NoDepositAmount"
NoWithdrawalAmount == "NoWithdrawalAmount"

\* Mutant of Read: the error of a record is reported and the loop goes on.
Read_after_error(t) ==
    /\ result # "Ok"
    /\ nread < MaxRecords
    /\ nread' = nread + 1
    /\ transaction' = Some(t)
    /\ pre' = Containers
    /\ output' = output

\* The head of one loop iteration: a record is read and decoded.
Read(t) ==
    /\ result = "Running"
    /\ nread < MaxRecords
    /\ nread' = nread + 1
    /\ transaction' = Some(t)
    /\ pre' = Containers
    /\ output' = output

\* Mutant of Continue: a record without effect does not create the account.
Continue_without_account(t) ==
    UNCHANGED <<account_balances, deposit_transaction_amounts,
                disputed_transactions, result, latest_deposit, depositor>>

\* `continue` (or the end of the loop body) with the client's account looked
\* up or created and nothing else written.
Continue(t) ==
    /\ account_balances' = entry(t.client_id)
    /\ UNCHANGED <<deposit_transaction_amounts, disputed_transactions, result,
                   latest_deposit, depositor>>

\* return Err(..) out of the loop body.
Return(t, error_type) ==
    /\ account_balances' = entry(t.client_id)
    /\ result' = error_type
    /\ UNCHANGED <<deposit_transaction_amounts, disputed_transactions,
                   latest_deposit, depositor>>

\* The arm wrote the client's account and nothing else.
Commit(t, account_balance) ==
    /\ account_balances' = [entry(t.client_id) EXCEPT ![t.client_id] = account_balance]
    /\ UNCHANGED result

Deposit(t) ==
    /\ t.tx_type = "Deposit"
    /\ Read(t)
    /\ LET account_balance == entry(t.client_id)[t.client_id] IN
       IF locked(account_balance) THEN Continue(t)
       ELSE IF t.amount # None
       THEN /\ Commit(t, deposit(account_balance, t.amount[1]))
            /\ deposit_transaction_amounts' =
                   insert(deposit_transaction_amounts, t.tx_id, t.amount[1])
            /\ latest_deposit' =
                   [x \in DOMAIN latest_deposit \cup {t.tx_id} |->
                       IF x = t.tx_id THEN t.amount[1] ELSE latest_deposit[x]]
            /\ depositor' =
                   [x \in DOMAIN depositor \cup {t.tx_id} |->
                       IF x = t.tx_id THEN t.client_id ELSE depositor[x]]
            /\ UNCHANGED disputed_transactions
       ELSE Return(t, NoDepositAmount)

Withdrawal(t) ==
    /\ t.tx_type = "Withdrawal"
    /\ Read(t)
    /\ LET account_balance == entry(t.client_id)[t.client_id] IN
       IF locked(account_balance) THEN Continue(t)
       ELSE IF t.amount # None
       THEN LET new_balance == F32Sub(account_balance.available, t.amount[1]) IN
            IF sufficient(new_balance)
            THEN /\ Commit(t, [account_balance EXCEPT !.available = new_balance])
                 /\ UNCHANGED <<deposit_transaction_amounts, disputed_transactions,
                                latest_deposit, depositor>>
            ELSE Continue(t)
       ELSE Return(t, NoWithdrawalAmount)

Dispute(t) ==
    /\ t.tx_type = "Dispute"
    /\ Read(t)
    /\ LET account_balance == entry(t.client_id)[t.client_id]
           amount == get(deposit_transaction_amounts, t.tx_id)
       IN  IF locked(account_balance) THEN Continue(t)
           ELSE IF amount = None THEN Continue(t)
           ELSE /\ Commit(t, dispute(account_balance, amount[1]))
                /\ disputed_transactions' = push(disputed_transactions, t.tx_id)
                /\ UNCHANGED <<deposit_transaction_amounts, latest_deposit, depositor>>

\* Mutant of Resolve: a resolved tx_id is taken out of the disputed set.
Resolve_clears(t) ==
    /\ t.tx_type = "Resolve"
    /\ Read(t)
    /\ LET account_balance == entry(t.client_id)[t.client_id]
           amount == get(deposit_transaction_amounts, t.tx_id)
       IN  IF locked(account_balance) THEN Continue(t)
           ELSE IF ~contains(disputed_transactions, t.tx_id) THEN Continue(t)
           ELSE IF amount = None THEN Continue(t)
           ELSE /\ Commit(t, resolve(account_balance, amount[1]))
                /\ disputed_transactions' =
                       SelectSeq(disputed_transactions, LAMBDA x : x # t.tx_id)
                /\ UNCHANGED <<deposit_transaction_amounts, latest_deposit, depositor>>

Resolve(t) ==
    /\ t.tx_type = "Resolve"
    /\ Read(t)
    /\ LET account_balance == entry(t.client_id)[t.client_id]
           amount == get(deposit_transaction_amounts, t.tx_id)
       IN  IF locked(account_balance) THEN Continue(t)
           ELSE IF ~contains(disputed_transactions, t.tx_id) THEN Continue(t)
           ELSE IF amount = None THEN Continue(t)
           ELSE /\ Commit(t, resolve(account_balance, amount[1]))
                /\ UNCHANGED <<deposit_transaction_amounts, disputed_transactions,
                               latest_deposit, depositor>>

Chargeback(t) ==
    /\ t.tx_type = "Chargeback"
    /\ Read(t)
    /\ LET account_balance == entry(t.client_id)[t.client_id]
           amount == get(deposit_transaction_amounts, t.tx_id)
       IN  IF locked(account_balance) THEN Continue(t)
           ELSE IF ~contains(disputed_transactions, t.tx_id) THEN Continue(t)
           ELSE IF amount = None THEN Continue(t)
           ELSE /\ Commit(t, chargeback(account_balance, amount[1]))
                /\ UNCHANGED <<deposit_transaction_amounts, disputed_transactions,
                               latest_deposit, depositor>>

\* rdr.deserialize() yields an Err: `transaction_record?` returns it.
DecodeError ==
    /\ result = "Running"
    /\ nread < MaxRecords
    /\ nread' = nread + 1
    /\ result' = "DecodeError"
    /\ transaction' = None
    /\ pre' = Containers
    /\ UNCHANGED <<account_balances, deposit_transaction_amounts,
                   disputed_transactions, output, latest_deposit, depositor>>

\* Mutant of Ascending: the keys are compared the other way round.
RECURSIVE Descending(_)
Descending(S) ==
    IF S = {} THEN <<>>
    ELSE LET m == CHOOSE x \in S : \A y \in S : x >= y
         IN  <<m>> \o Descending(S \ {m})

\* The keys of a BTreeMap in iteration order (ascending).
RECURSIVE Ascending(_)
Ascending(S) ==
    IF S = {} THEN <<>>
    ELSE LET m == CHOOSE x \in S : \A y \in S : x <= y
         IN  <<m>> \o Ascending(S \ {m})

\* fmt::Display for AccountBalance: the fields of one output line.
Display(a) ==
    [client |-> a.client, available |-> Format4(a.available),
     held |-> Format4(a.held), total |-> Format4(get_total(a)),
     locked |-> a.locked]

\* The first line of the output.
Header == "client, available, held, total, locked"

\* The reader is exhausted: the output is generated and returned.
EndOfStream ==
    /\ result = "Running"
    /\ result' = "Ok"
    /\ output' = LET keys == Ascending(DOMAIN account_balances)
                 IN  <<Header>> \o
                     [i \in 1..Len(keys) |-> Display(account_balances[keys[i]])]
    /\ transaction' = None
    /\ pre' = Containers
    /\ UNCHANGED <<account_balances, deposit_transaction_amounts,
                   disputed_transactions, nread, latest_deposit, depositor>>

Next ==
    \/ \E t \in Transaction : Deposit(t)
    \/ \E t \in Transaction : Withdrawal(t)
    \/ \E t \in Transaction : Dispute(t)
    \/ \E t \in Transaction : Resolve(t)
    \/ \E t \in Transaction : Chargeback(t)
    \/ DecodeError
    \/ EndOfStream

Spec == Init /\ [][Next]_vars

\* The streams in which every amount present is non-negative.
NonNegative(t) == IF t.amount = None THEN TRUE ELSE t.amount[1] >= 0

NextNonNeg ==
    \/ \E t \in Transaction : NonNegative(t) /\ Deposit(t)
    \/ \E t \in Transaction : NonNegative(t) /\ Withdrawal(t)
    \/ \E t \in Transaction : NonNegative(t) /\ Dispute(t)
    \/ \E t \in Transaction : NonNegative(t) /\ Resolve(t)
    \/ \E t \in Transaction : NonNegative(t) /\ Chargeback(t)
    \/ DecodeError
    \/ EndOfStream

SpecNonNeg == Init /\ [][NextNonNeg]_vars

\* =================================================================== claims
\* What the properties speak about: the record of the last iteration, the
\* client's account before it (a client not seen before has the balances of a
\* new account) and after it, and the disputed transactions as a set.
Applied == transaction # None
rec == transaction[1]
Seen(c) == c \in DOMAIN pre.accounts
Before(c) ==
    IF Seen(c) THEN pre.accounts[c]
    ELSE [client |-> c, available |-> 0, held |-> 0, locked |-> FALSE]
After(c) == account_balances[c]
WasLocked(c) == Seen(c) /\ pre.accounts[c].locked
Elems(v) == {v[i] : i \in 1..Len(v)}
OthersUnchanged(c) ==
    /\ DOMAIN account_balances = DOMAIN pre.accounts \cup {c}
    /\ \A k \in DOMAIN pre.accounts : k # c => account_balances[k] = pre.accounts[k]
NoError == result = "Running"

\* C1: a record for a client whose account is locked changes nothing: no
\* account, not the deposit index, not the disputed set, and raises no error,
\* whatever its kind and whether or not its amount is present.
C1_LockedIsNoOp ==
    (Applied /\ WasLocked(rec.client_id)) =>
        /\ account_balances = pre.accounts
        /\ deposit_transaction_amounts = pre.deposits
        /\ disputed_transactions = pre.disputed
        /\ NoError

\* A Deposit without amount was read for a locked account.
C1_Witness ==
    /\ Applied /\ WasLocked(rec.client_id)
    /\ rec.tx_type = "Deposit" /\ rec.amount = None
    /\ pre.accounts[rec.client_id].held # 0

\* C2: applying a record returns an error exactly when it is a Deposit or a
\* Withdrawal without amount for an account that is not locked; the error is
\* NoDepositAmount for the Deposit and NoWithdrawalAmount for the Withdrawal.
C2_ErrorIffMissingAmount ==
    Applied =>
        /\ result \in {"Running", "NoDepositAmount", "NoWithdrawalAmount"}
        /\ result = "NoDepositAmount" <=>
               (rec.tx_type = "Deposit" /\ rec.amount = None
                /\ ~WasLocked(rec.client_id))
        /\ result = "NoWithdrawalAmount" <=>
               (rec.tx_type = "Withdrawal" /\ rec.amount = None
                /\ ~WasLocked(rec.client_id))

\* A Withdrawal without amount stopped a run that had applied records before.
C2_Witness ==
    /\ Applied /\ result = "NoWithdrawalAmount"
    /\ rec.tx_type = "Withdrawal" /\ rec.amount = None
    /\ pre.deposits # <<>>

\* C3: a Dispute for a non-locked account whose tx_id is in the deposit index
\* with amount a moves a from available to held on the client's account, adds
\* tx_id to the disputed set and leaves locked, the deposit index and the
\* other accounts as they were, also when available becomes negative.
C3_DisputeMovesToHeld ==
    (Applied /\ rec.tx_type = "Dispute" /\ ~WasLocked(rec.client_id)
     /\ rec.tx_id \in DOMAIN pre.deposits) =>
        LET c == rec.client_id
            a == pre.deposits[rec.tx_id]
        IN  /\ After(c).available = F32Sub(Before(c).available, a)
            /\ After(c).held = F32Add(Before(c).held, a)
            /\ After(c).locked = Before(c).locked
            /\ After(c).client = c
            /\ Elems(disputed_transactions) = Elems(pre.disputed) \cup {rec.tx_id}
            /\ deposit_transaction_amounts = pre.deposits
            /\ OthersUnchanged(c)
            /\ NoError

\* A Dispute took available from zero or more to below zero.
C3_Witness ==
    /\ Applied /\ rec.tx_type = "Dispute" /\ ~WasLocked(rec.client_id)
    /\ rec.tx_id \in DOMAIN pre.deposits
    /\ Before(rec.client_id).available >= 0
    /\ After(rec.client_id).available < 0
    /\ After(rec.client_id).held > 0

\* C4: a Resolve for a non-locked account does nothing when its tx_id is not
\* in the disputed set, even if the deposit index has the tx_id; when the
\* tx_id is disputed and the deposit index holds a for it, it moves a from
\* held back to available and leaves locked, the deposit index and the
\* disputed set as they were.
C4_ResolveMovesBack ==
    (Applied /\ rec.tx_type = "Resolve" /\ ~WasLocked(rec.client_id)) =>
        LET c == rec.client_id IN
        /\ After(c).locked = Before(c).locked
        /\ deposit_transaction_amounts = pre.deposits
        /\ disputed_transactions = pre.disputed
        /\ NoError
        /\ rec.tx_id \notin Elems(pre.disputed) =>
               /\ After(c).available = Before(c).available
               /\ After(c).held = Before(c).held
        /\ (rec.tx_id \in Elems(pre.disputed) /\ rec.tx_id \in DOMAIN pre.deposits) =>
               /\ After(c).available =
                      F32Add(Before(c).available, pre.deposits[rec.tx_id])
               /\ After(c).held = F32Sub(Before(c).held, pre.deposits[rec.tx_id])

\* A Resolve of a disputed tx_id released held funds of the account.
C4_Witness ==
    /\ Applied /\ rec.tx_type = "Resolve" /\ ~WasLocked(rec.client_id)
    /\ rec.tx_id \in Elems(pre.disputed)
    /\ Before(rec.client_id).held > 0
    /\ After(rec.client_id).held = 0
    /\ After(rec.client_id).available > Before(rec.client_id).available

\* C5: a Chargeback for a non-locked account does nothing when its tx_id is
\* not in the disputed set; when the tx_id is disputed and the deposit index
\* holds a for it, it takes a from held, locks the account and leaves
\* available, the deposit index and the disputed set as they were.  After
\* Deposit(t, a) and Dispute(t) on a new client, Chargeback(t) leaves
\* available = 0, held = 0, locked = true.
C5_ChargebackLocks ==
    (Applied /\ rec.tx_type = "Chargeback" /\ ~WasLocked(rec.client_id)) =>
        LET c == rec.client_id IN
        /\ After(c).available = Before(c).available
        /\ deposit_transaction_amounts = pre.deposits
        /\ disputed_transactions = pre.disputed
        /\ NoError
        /\ rec.tx_id \notin Elems(pre.disputed) =>
               /\ After(c).held = Before(c).held
               /\ After(c).locked = Before(c).locked
        /\ (rec.tx_id \in Elems(pre.disputed) /\ rec.tx_id \in DOMAIN pre.deposits) =>
               /\ After(c).held = F32Sub(Before(c).held, pre.deposits[rec.tx_id])
               /\ After(c).locked
        /\ (nread = 3 /\ Seen(c) /\ pre.disputed = <<rec.tx_id>>
            /\ DOMAIN pre.accounts = {c} /\ DOMAIN pre.deposits = {rec.tx_id}
            /\ pre.accounts[c].available = 0
            /\ pre.accounts[c].held = pre.deposits[rec.tx_id]) =>
               /\ After(c).available = 0
               /\ After(c).held = 0
               /\ After(c).locked

\* The third record of Deposit(t, a), Dispute(t), Chargeback(t) on one client.
C5_Witness ==
    /\ Applied /\ rec.tx_type = "Chargeback" /\ nread = 3
    /\ pre.disputed = <<rec.tx_id>>
    /\ DOMAIN pre.accounts = {rec.client_id}
    /\ DOMAIN pre.deposits = {rec.tx_id}
    /\ pre.deposits[rec.tx_id] = 1
    /\ pre.accounts[rec.client_id].available = 0
    /\ pre.accounts[rec.client_id].held = 1
    /\ After(rec.client_id).locked

\* C6: a Deposit of a for a non-locked account adds a to available, sets the
\* deposit index entry of its tx_id to a, replacing an earlier entry of that
\* tx_id (of any client), and leaves held, locked, the other entries and the
\* disputed set as they were; a later Dispute of the tx_id moves the amount of
\* the latest Deposit of that tx_id.
C6_DepositCreditsAndIndexes ==
    /\ (Applied /\ rec.tx_type = "Deposit" /\ ~WasLocked(rec.client_id)
        /\ rec.amount # None) =>
           LET c == rec.client_id
               a == rec.amount[1]
           IN  /\ After(c).available = F32Add(Before(c).available, a)
               /\ After(c).held = Before(c).held
               /\ After(c).locked = Before(c).locked
               /\ DOMAIN deposit_transaction_amounts =
                      DOMAIN pre.deposits \cup {rec.tx_id}
               /\ deposit_transaction_amounts[rec.tx_id] = a
               /\ \A k \in DOMAIN pre.deposits :
                      k # rec.tx_id => deposit_transaction_amounts[k] = pre.deposits[k]
               /\ disputed_transactions = pre.disputed
               /\ NoError
    /\ (Applied /\ rec.tx_type = "Dispute" /\ ~WasLocked(rec.client_id)
        /\ rec.tx_id \in DOMAIN pre.deposits) =>
           LET c == rec.client_id IN
           /\ rec.tx_id \in DOMAIN latest_deposit
           /\ After(c).held = F32Add(Before(c).held, latest_deposit[rec.tx_id])
           /\ After(c).available =
                  F32Sub(Before(c).available, latest_deposit[rec.tx_id])

\* Deposit(c, t, 1), Deposit(c2, t, BigAmount), Dispute(c, t): the Dispute
\* moved the amount of the second Deposit, made by the other client.
C6_Witness ==
    /\ Applied /\ rec.tx_type = "Dispute" /\ nread = 3
    /\ DOMAIN pre.accounts = Clients
    /\ DOMAIN pre.deposits = {rec.tx_id}
    /\ pre.deposits[rec.tx_id] = BigAmount
    /\ pre.accounts[rec.client_id].available = 1
    /\ After(rec.client_id).held = BigAmount

\* C7: a Withdrawal of b for a non-locked account sets available to
\* available - b when that is not negative and otherwise changes nothing;
\* either way no error is raised and held, locked, the deposit index and the
\* disputed set stay as they were, and available is not negative after a
\* Withdrawal that took effect.
C7_WithdrawalNeedsFunds ==
    (Applied /\ rec.tx_type = "Withdrawal" /\ ~WasLocked(rec.client_id)
     /\ rec.amount # None) =>
        LET c == rec.client_id
            b == rec.amount[1]
        IN  /\ After(c).available =
                   IF F32Sub(Before(c).available, b) >= 0
                   THEN F32Sub(Before(c).available, b)
                   ELSE Before(c).available
            /\ After(c).available # Before(c).available => After(c).available >= 0
            /\ After(c).held = Before(c).held
            /\ After(c).locked = Before(c).locked
            /\ deposit_transaction_amounts = pre.deposits
            /\ disputed_transactions = pre.disputed
            /\ NoError

\* A Withdrawal larger than a positive available balance was ignored.
C7_Witness ==
    /\ Applied /\ rec.tx_type = "Withdrawal" /\ ~WasLocked(rec.client_id)
    /\ rec.amount # None
    /\ Before(rec.client_id).available > 0
    /\ rec.amount[1] > Before(rec.client_id).available
    /\ After(rec.client_id).available = Before(rec.client_id).available

\* C8: a Dispute, Resolve or Chargeback whose tx_id is not in the deposit
\* index leaves available, held and locked of its client, the deposit index
\* and the disputed set as they were and raises no error.
C8_UnknownTxIsNoOp ==
    (Applied /\ rec.tx_type \in {"Dispute", "Resolve", "Chargeback"}
     /\ rec.tx_id \notin DOMAIN pre.deposits) =>
        LET c == rec.client_id IN
        /\ After(c).available = Before(c).available
        /\ After(c).held = Before(c).held
        /\ After(c).locked = Before(c).locked
        /\ deposit_transaction_amounts = pre.deposits
        /\ disputed_transactions = pre.disputed
        /\ NoError

\* A Dispute of an unknown tx_id met an account with funds and a non-empty
\* deposit index.
C8_Witness ==
    /\ Applied /\ rec.tx_type = "Dispute"
    /\ rec.tx_id \notin DOMAIN pre.deposits
    /\ pre.deposits # <<>>
    /\ ~WasLocked(rec.client_id)
    /\ Before(rec.client_id).available > 0

\* C9: a Dispute whose tx_id is already in the disputed set raises no error
\* and leaves available and held of the account, and the disputed set, as
\* they were.
C9_RedisputeIsNoOp ==
    (Applied /\ rec.tx_type = "Dispute" /\ rec.tx_id \in Elems(pre.disputed)) =>
        LET c == rec.client_id IN
        /\ NoError
        /\ After(c).available = Before(c).available
        /\ After(c).held = Before(c).held
        /\ Elems(disputed_transactions) = Elems(pre.disputed)

\* C10: a record for client c changes no account but that of c; the deposit
\* index changes only by a Deposit that takes effect, and the disputed set
\* only by a Dispute that takes effect, which inserts its tx_id.
C10_Frame ==
    Applied =>
        /\ OthersUnchanged(rec.client_id)
        /\ deposit_transaction_amounts # pre.deposits =>
               /\ rec.tx_type = "Deposit"
               /\ rec.amount # None
               /\ ~WasLocked(rec.client_id)
        /\ disputed_transactions # pre.disputed =>
               /\ rec.tx_type = "Dispute"
               /\ rec.tx_id \in DOMAIN pre.deposits
               /\ ~WasLocked(rec.client_id)
               /\ disputed_transactions = pre.disputed \o <<rec.tx_id>>

\* A record changed its client's account while the other client had funds
\* held and a disputed transaction.
C10_Witness ==
    /\ Applied
    /\ DOMAIN pre.accounts = Clients
    /\ After(rec.client_id) # pre.accounts[rec.client_id]
    /\ \E k \in Clients \ {rec.client_id} : pre.accounts[k].held # 0
    /\ pre.disputed # <<>>
    /\ rec.tx_type = "Resolve"


\* C11: the locked flag of an account goes from false to true only by a
\* Chargeback for that client whose tx_id is disputed; a locked account stays
\* locked, and every other step leaves the flag as it was.
C11_LockedOnlyByChargeback ==
    /\ \A k \in DOMAIN pre.accounts :
           /\ k \in DOMAIN account_balances
           /\ pre.accounts[k].locked => account_balances[k].locked
    /\ \A k \in DOMAIN account_balances :
           (account_balances[k].locked /\ ~WasLocked(k)) =>
               /\ Applied
               /\ rec.tx_type = "Chargeback"
               /\ rec.client_id = k
               /\ rec.tx_id \in Elems(pre.disputed)

\* A record other than a Chargeback was read for an unlocked client while the
\* other client's account, locked by an earlier Chargeback, stayed locked.
C11_Witness ==
    /\ Applied /\ rec.tx_type = "Dispute" /\ ~WasLocked(rec.client_id)
    /\ rec.tx_id \in Elems(pre.disputed)
    /\ \E k \in DOMAIN pre.accounts :
           pre.accounts[k].locked /\ account_balances[k].locked
    /\ ~After(rec.client_id).locked


\* C12: once a record has raised a missing-amount error nothing is read or
\* written any more, and no output exists; the output is produced only by a
\* run that read its whole stream without error.
C12_ErrorStopsTheRun ==
    [][/\ result \in TransactionErrorType => UNCHANGED vars
       /\ result' \in TransactionErrorType => output' = <<>>
       /\ output' # <<>> => (result' = "Ok" /\ result = "Running")]_vars

\* A Deposit without amount stopped a run that had changed accounts before.
C12_Witness ==
    /\ result = "NoDepositAmount"
    /\ nread < MaxRecords
    /\ output = <<>>
    /\ \E k \in DOMAIN pre.accounts : pre.accounts[k].available # 0


\* C13: a tx_id in the disputed set stays in it; every Resolve of a disputed
\* tx_id for a non-locked account, a repeated one too, adds its amount to
\* available and takes it from held, and a Chargeback of a disputed tx_id
\* takes effect after a Resolve of it as well.
C13_DisputedStays ==
    /\ Elems(pre.disputed) \subseteq Elems(disputed_transactions)
    /\ (Applied /\ rec.tx_type \in {"Resolve", "Chargeback"}
        /\ ~WasLocked(rec.client_id) /\ rec.tx_id \in Elems(pre.disputed)) =>
           LET c == rec.client_id IN
           /\ rec.tx_id \in DOMAIN pre.deposits
           /\ rec.tx_id \in Elems(disputed_transactions)
           /\ rec.tx_type = "Resolve" =>
                  /\ After(c).available =
                         F32Add(Before(c).available, pre.deposits[rec.tx_id])
                  /\ After(c).held = F32Sub(Before(c).held, pre.deposits[rec.tx_id])
           /\ rec.tx_type = "Chargeback" =>
                  /\ After(c).held = F32Sub(Before(c).held, pre.deposits[rec.tx_id])
                  /\ After(c).locked

\* Deposit(t, 1), Dispute(t), Resolve(t) and a second Resolve(t) of one
\* client: the second Resolve took held below zero.
C13_Witness ==
    /\ Applied /\ rec.tx_type = "Resolve" /\ nread = 4
    /\ DOMAIN pre.accounts = {rec.client_id}
    /\ DOMAIN pre.deposits = {rec.tx_id}
    /\ pre.deposits[rec.tx_id] = 1
    /\ pre.disputed = <<rec.tx_id>>
    /\ pre.accounts[rec.client_id].available = 1
    /\ pre.accounts[rec.client_id].held = 0
    /\ After(rec.client_id).available = 2
    /\ After(rec.client_id).held = -1


\* The output lines of the accounts, after the header.
Lines == 2..Len(output)

\* C14: the output lists every account exactly once, in strictly ascending
\* order of the client identifier, so the order is fixed by the accounts and
\* not by the order in which the clients first appeared; producing it leaves
\* the accounts as they were.
C14_OutputSortedByClient ==
    result = "Ok" =>
        /\ Len(output) = Cardinality(DOMAIN account_balances) + 1
        /\ output[1] = "client, available, held, total, locked"
        /\ \A i \in Lines :
               /\ output[i].client \in DOMAIN account_balances
               /\ output[i].locked = account_balances[output[i].client].locked
               /\ \A j \in Lines : i < j => output[i].client < output[j].client
        /\ account_balances = pre.accounts
        /\ deposit_transaction_amounts = pre.deposits
        /\ disputed_transactions = pre.disputed

\* Deposit(2, t, 1), Dispute(1, t), end of stream: client 2 appeared first
\* and client 1 is listed first.
C14_Witness ==
    /\ result = "Ok" /\ nread = 2
    /\ DOMAIN account_balances = {1, 2}
    /\ account_balances[2].available = 1 /\ account_balances[2].held = 0
    /\ account_balances[1].available = -1 /\ account_balances[1].held = 1
    /\ Len(output) = 3
    /\ output[2].client = 1 /\ output[3].client = 2


\* C17 as stated: in every output line the total printed equals the sum of
\* the available and held printed in that line.
C17_TotalIsSumOfPrinted ==
    result = "Ok" =>
        \A i \in Lines : output[i].total = output[i].available + output[i].held

\* C17, amended: in every output line the total printed is the four-decimal
\* rendering of the f32 sum available + held of that account, taken when the
\* output is produced; an account stores no total.
C17_TotalIsPrintedSum ==
    /\ \A k \in DOMAIN account_balances :
           DOMAIN account_balances[k] = {"client", "available", "held", "locked"}
    /\ result = "Ok" =>
           \A i \in Lines :
               LET a == account_balances[output[i].client] IN
               /\ output[i].total = Format4(F32Round(a.available + a.held))
               /\ output[i].available = Format4(a.available)
               /\ output[i].held = Format4(a.held)

\* An output line whose available and held both print as 0.0000 and whose
\* total prints as 0.0001.
C17_Witness ==
    /\ result = "Ok"
    /\ \E i \in Lines :
           /\ output[i].available = 0 /\ output[i].held = 0 /\ output[i].total = 1
           /\ account_balances[output[i].client].held # 0


\* The balances of an account.
Balances(a) == <<a.available, a.held, a.locked>>

\* C15: the first record that names a client creates its account, whatever
\* the kind of the record and whether or not it takes effect, and the rule of
\* the record works on available = 0, held = 0, locked = false; the client
\* identifier of an account never changes and no account is removed.
C15_AccountCreatedOnFirstRecord ==
    /\ DOMAIN pre.accounts \subseteq DOMAIN account_balances
    /\ \A k \in DOMAIN account_balances : account_balances[k].client = k
    /\ Applied =>
           DOMAIN account_balances = DOMAIN pre.accounts \cup {rec.client_id}
    /\ (Applied /\ ~Seen(rec.client_id)) =>
           LET c == rec.client_id
               known == rec.tx_id \in DOMAIN pre.deposits
               disputed == rec.tx_id \in Elems(pre.disputed)
               a == pre.deposits[rec.tx_id]
           IN  Balances(After(c)) =
                   CASE rec.tx_type = "Deposit" /\ rec.amount # None ->
                            <<rec.amount[1], 0, FALSE>>
                     [] rec.tx_type = "Withdrawal" /\ rec.amount # None
                            /\ rec.amount[1] <= 0 ->
                            <<-rec.amount[1], 0, FALSE>>
                     [] rec.tx_type = "Dispute" /\ known -> <<-a, a, FALSE>>
                     [] rec.tx_type = "Resolve" /\ known /\ disputed ->
                            <<a, -a, FALSE>>
                     [] rec.tx_type = "Chargeback" /\ known /\ disputed ->
                            <<0, -a, TRUE>>
                     [] OTHER -> <<0, 0, FALSE>>

\* A Resolve of a tx_id that is not disputed was the first record of the
\* second client: it had no effect and the account exists, with zero balances.
C15_Witness ==
    /\ Applied /\ ~Seen(rec.client_id)
    /\ rec.tx_type = "Resolve"
    /\ rec.tx_id \notin Elems(pre.disputed)
    /\ pre.accounts # <<>>
    /\ rec.client_id \in DOMAIN account_balances
    /\ Balances(After(rec.client_id)) = <<0, 0, FALSE>>


\* C16: a Dispute of a tx_id in the deposit index for a non-locked client,
\* followed at once by a Resolve of the same tx_id for the same client, leaves
\* available, held and locked of that account as they were before the Dispute.
C16_DisputeResolveRestores ==
    [][(/\ Applied /\ rec.tx_type = "Dispute"
        /\ ~WasLocked(rec.client_id)
        /\ rec.tx_id \in DOMAIN pre.deposits
        /\ transaction' # None
        /\ transaction'[1].tx_type = "Resolve"
        /\ transaction'[1].client_id = rec.client_id
        /\ transaction'[1].tx_id = rec.tx_id) =>
           Balances(account_balances'[rec.client_id]) = Balances(Before(rec.client_id))]_vars


\* C18: every tx_id in the disputed set is a key of the deposit index, so a
\* Resolve or Chargeback that finds its tx_id disputed always finds the
\* deposit amount as well.
C18_DisputedAreDeposits ==
    /\ Elems(disputed_transactions) \subseteq DOMAIN deposit_transaction_amounts
    /\ (Applied /\ rec.tx_type \in {"Resolve", "Chargeback"}
        /\ ~WasLocked(rec.client_id) /\ rec.tx_id \in Elems(pre.disputed)) =>
           rec.tx_id \in DOMAIN pre.deposits

\* A Chargeback found its tx_id disputed while the other tx_id, deposited
\* too, was not disputed.
C18_Witness ==
    /\ Applied /\ rec.tx_type = "Chargeback" /\ ~WasLocked(rec.client_id)
    /\ rec.tx_id \in Elems(pre.disputed)
    /\ DOMAIN pre.deposits = TxIds
    /\ Elems(pre.disputed) # TxIds
    /\ After(rec.client_id).locked


\* C19 (its last sentence): a Dispute, Resolve or Chargeback changes an
\* account only if that account's client made the Deposit of its tx_id.
C19_OnlyTheDepositorIsAffected ==
    (Applied /\ rec.tx_type \in {"Dispute", "Resolve", "Chargeback"}
     /\ Balances(After(rec.client_id)) # Balances(Before(rec.client_id))) =>
        /\ rec.tx_id \in DOMAIN depositor
        /\ depositor[rec.tx_id] = rec.client_id


\* C20: in a stream whose Deposit and Withdrawal amounts are all
\* non-negative, held of every account is never below zero.
C20_HeldNeverNegative ==
    \A k \in DOMAIN account_balances : account_balances[k].held >= 0

====
